---------------------------- MODULE Spec2Model ----------------------------
(***************************************************************************)
(* byok-ai: the envelope cipher (Encryption), the in-memory credential     *)
(* store (MemoryStore) and the vault orchestrator (BYOK).                  *)
(*                                                                         *)
(* Data representation.  A JavaScript string is the sequence of its UTF-16 *)
(* code units (numbers 0..65535); a Buffer is the sequence of its bytes    *)
(* (numbers 0..255).  Conversions between the two (UTF-8, base64) are      *)
(* computed the way Node computes them.                                    *)
(***************************************************************************)
EXTENDS Integers, Sequences, FiniteSets, TLC

(***************************************************************************)
(* Program constants of the Encryption class.                              *)
(***************************************************************************)
keyLength == 32
ivLength == 16
saltLength == 32
tagLength == 16

(***************************************************************************)
(* Generic helpers on sequences.                                           *)
(***************************************************************************)
Fill(n, v) == [i \in 1..n |-> v]

Drop(s, n) == SubSeq(s, n + 1, Len(s))

Take(s, n) == SubSeq(s, 1, n)

\* Buffer.subarray(start, end) with both ends clamped to the buffer
subarray(buf, start, end) ==
    LET e == IF end > Len(buf) THEN Len(buf) ELSE end
    IN  IF start >= e THEN << >> ELSE SubSeq(buf, start + 1, e)

\* the concatenation of pieces[lo], ..., pieces[hi]
RECURSIVE FlattenRange(_, _, _)
FlattenRange(pieces, lo, hi) ==
    IF lo > hi THEN << >>
    ELSE IF lo = hi THEN pieces[lo]
    ELSE LET mid == (lo + hi) \div 2
         IN  FlattenRange(pieces, lo, mid) \o FlattenRange(pieces, mid + 1, hi)

Flatten(pieces) == FlattenRange(pieces, 1, Len(pieces))

\* terms[lo] + ... + terms[hi]
RECURSIVE SumRange(_, _, _)
SumRange(terms, lo, hi) ==
    IF lo > hi THEN 0
    ELSE IF lo = hi THEN terms[lo]
    ELSE LET mid == (lo + hi) \div 2
         IN  SumRange(terms, lo, mid) + SumRange(terms, mid + 1, hi)

Min(a, b) == IF a < b THEN a ELSE b

(***************************************************************************)
(* UTF-8.  Utf8Encode is Buffer.from(str, "utf-8") (and cipher.update(str, *)
(* "utf-8")): a surrogate pair becomes one 4-byte sequence and an unpaired *)
(* surrogate is replaced by U+FFFD (EF BF BD).  Utf8Decode is              *)
(* buf.toString("utf-8"): every maximal ill-formed subpart decodes to      *)
(* U+FFFD.                                                                 *)
(***************************************************************************)
IsHighSurrogate(u) == u >= 55296 /\ u <= 56319

IsLowSurrogate(u) == u >= 56320 /\ u <= 57343

Utf8OfCodePoint(cp) ==
    IF cp < 128 THEN << cp >>
    ELSE IF cp < 2048 THEN << 192 + (cp \div 64), 128 + (cp % 64) >>
    ELSE IF cp < 65536
         THEN << 224 + (cp \div 4096), 128 + ((cp \div 64) % 64), 128 + (cp % 64) >>
    ELSE << 240 + (cp \div 262144), 128 + ((cp \div 4096) % 64),
            128 + ((cp \div 64) % 64), 128 + (cp % 64) >>

\* the bytes the code unit at position i contributes
Utf8Piece(str, i) ==
    LET u == str[i]
    IN  IF IsHighSurrogate(u) /\ i < Len(str) /\ IsLowSurrogate(str[i + 1])
        THEN Utf8OfCodePoint(65536 + (u - 55296) * 1024 + (str[i + 1] - 56320))
        ELSE IF IsLowSurrogate(u) /\ i > 1 /\ IsHighSurrogate(str[i - 1])
        THEN << >>
        ELSE IF IsHighSurrogate(u) \/ IsLowSurrogate(u)
        THEN << 239, 191, 189 >>
        ELSE Utf8OfCodePoint(u)

Utf8Encode(str) == Flatten([i \in 1..Len(str) |-> Utf8Piece(str, i)])

IsCont(b) == b >= 128 /\ b <= 191

\* code units of one decoded code point
UnitsOfCodePoint(cp) ==
    IF cp < 65536 THEN << cp >>
    ELSE << 55296 + ((cp - 65536) \div 1024), 56320 + ((cp - 65536) % 1024) >>

\* [units, used]: the code units of the first character of buf and the bytes it took
Utf8DecodeOne(buf) ==
    LET b1 == buf[1]
        n  == Len(buf)
        bad(k) == [units |-> << 65533 >>, used |-> k]
    IN  IF b1 < 128 THEN [units |-> << b1 >>, used |-> 1]
        ELSE IF b1 >= 194 /\ b1 <= 223
        THEN IF n >= 2 /\ IsCont(buf[2])
             THEN [units |-> << (b1 - 192) * 64 + (buf[2] - 128) >>, used |-> 2]
             ELSE bad(1)
        ELSE IF b1 >= 224 /\ b1 <= 239
        THEN LET lo == IF b1 = 224 THEN 160 ELSE 128
                 hi == IF b1 = 237 THEN 159 ELSE 191
             IN  IF ~(n >= 2 /\ buf[2] >= lo /\ buf[2] <= hi) THEN bad(1)
                 ELSE IF ~(n >= 3 /\ IsCont(buf[3])) THEN bad(2)
                 ELSE [units |-> << (b1 - 224) * 4096 + (buf[2] - 128) * 64
                                     + (buf[3] - 128) >>,
                       used |-> 3]
        ELSE IF b1 >= 240 /\ b1 <= 244
        THEN LET lo == IF b1 = 240 THEN 144 ELSE 128
                 hi == IF b1 = 244 THEN 143 ELSE 191
             IN  IF ~(n >= 2 /\ buf[2] >= lo /\ buf[2] <= hi) THEN bad(1)
                 ELSE IF ~(n >= 3 /\ IsCont(buf[3])) THEN bad(2)
                 ELSE IF ~(n >= 4 /\ IsCont(buf[4])) THEN bad(3)
                 ELSE [units |-> UnitsOfCodePoint((b1 - 240) * 262144
                                     + (buf[2] - 128) * 4096
                                     + (buf[3] - 128) * 64 + (buf[4] - 128)),
                       used |-> 4]
        ELSE bad(1)

\* the position of the nearest byte before i that is not a continuation
\* byte, looking back at most three bytes; 0 when there is none
LeadBefore(buf, i) ==
    IF i > 1 /\ ~IsCont(buf[i - 1]) THEN i - 1
    ELSE IF i > 2 /\ ~IsCont(buf[i - 2]) THEN i - 2
    ELSE IF i > 3 /\ ~IsCont(buf[i - 3]) THEN i - 3
    ELSE 0

\* the byte at i belongs to the character that starts before it
Utf8Consumed(buf, i) ==
    /\ IsCont(buf[i])
    /\ LeadBefore(buf, i) > 0
    /\ Utf8DecodeOne(Drop(buf, LeadBefore(buf, i) - 1)).used > i - LeadBefore(buf, i)

Utf8Decode(buf) ==
    Flatten([i \in 1..Len(buf) |->
                IF Utf8Consumed(buf, i) THEN << >>
                ELSE Utf8DecodeOne(SubSeq(buf, i, Min(i + 3, Len(buf)))).units])

(***************************************************************************)
(* Base64.  Base64Encode is buf.toString("base64") (standard alphabet,     *)
(* "=" padding).  Base64Decode is Buffer.from(str, "base64"): characters   *)
(* outside the alphabet are skipped, "-" and "_" are accepted as 62 and    *)
(* 63, decoding stops at the first "=", and the bits of a final partial    *)
(* group that do not fill a byte are dropped.                              *)
(***************************************************************************)
PadChar == 61

Base64Char(v) ==
    IF v < 26 THEN 65 + v
    ELSE IF v < 52 THEN 97 + (v - 26)
    ELSE IF v < 62 THEN 48 + (v - 52)
    ELSE IF v = 62 THEN 43
    ELSE 47

\* the 6-bit value of a character, -1 for a character outside the alphabet
unbase64(c) ==
    IF c >= 65 /\ c <= 90 THEN c - 65
    ELSE IF c >= 97 /\ c <= 122 THEN c - 97 + 26
    ELSE IF c >= 48 /\ c <= 57 THEN c - 48 + 52
    ELSE IF c = 43 \/ c = 45 THEN 62
    ELSE IF c = 47 \/ c = 95 THEN 63
    ELSE -1

\* the byte at position i, 0 past the end
ByteOrZero(buf, i) == IF i <= Len(buf) THEN buf[i] ELSE 0

\* character j (1..4) of the group that encodes the three bytes from position p
Base64GroupChar(buf, p, j) ==
    IF j = 1 THEN Base64Char(buf[p] \div 4)
    ELSE IF j = 2
    THEN Base64Char((buf[p] % 4) * 16 + (ByteOrZero(buf, p + 1) \div 16))
    ELSE IF j = 3
    THEN IF p + 1 > Len(buf) THEN PadChar
         ELSE Base64Char((buf[p + 1] % 16) * 4 + (ByteOrZero(buf, p + 2) \div 64))
    ELSE IF p + 2 > Len(buf) THEN PadChar
         ELSE Base64Char(buf[p + 2] % 64)

Base64Encode(buf) ==
    [c \in 1..(4 * ((Len(buf) + 2) \div 3)) |->
        Base64GroupChar(buf, 3 * ((c - 1) \div 4) + 1, ((c - 1) % 4) + 1)]

\* the text before the first "="
BeforePad(str) ==
    LET pads == { i \in 1..Len(str) : str[i] = PadChar }
    IN  IF pads = {} THEN str
        ELSE Take(str, (CHOOSE i \in pads : \A j \in pads : i <= j) - 1)

IsBase64Char(c) == unbase64(c) >= 0

\* the 6-bit values of the legal characters before the first "="
Base64Sextets(str) ==
    LET legal == SelectSeq(BeforePad(str), IsBase64Char)
    IN  [i \in 1..Len(legal) |-> unbase64(legal[i])]

\* byte k of the decoded buffer
Base64Byte(sx, k) ==
    LET q == 4 * ((k - 1) \div 3)
        r == (k - 1) % 3
    IN  IF r = 0 THEN sx[q + 1] * 4 + (sx[q + 2] \div 16)
        ELSE IF r = 1 THEN (sx[q + 2] % 16) * 16 + (sx[q + 3] \div 4)
        ELSE (sx[q + 3] % 4) * 64 + sx[q + 4]

Base64Decode(str) ==
    LET sx == Base64Sextets(str)
    IN  [k \in 1..((Len(sx) * 6) \div 8) |-> Base64Byte(sx, k)]

(***************************************************************************)
(* Node's crypto library, as far as the Encryption class uses it.          *)
(*                                                                         *)
(* PBKDF2 and AES-256-GCM are not computed; they are replaced by ideal     *)
(* stand-ins with the same interface and the properties the library        *)
(* guarantees: the derived key is determined by (password, salt) and by    *)
(* nothing else, the ciphertext has the length of the plaintext and is     *)
(* inverted by the same (key, iv), and the 16-byte tag is a checksum of    *)
(* (key, iv, ciphertext) that final() recomputes and compares.  The        *)
(* checksum is a weighted sum over the integers modulo 257, so that any *)
(* change of a single byte of its input changes it.                        *)
(***************************************************************************)
\* the number of values a call of crypto.randomBytes may return: in the
\* specification of the cipher, and in the specification of the vault
MaxRandom == 2

MaxVaultRandom == 1

\* crypto.randomBytes(n), one of `most` values
randomBytes(n, most) == { Fill(n, v) : v \in 1..most }

\* crypto.pbkdf2Sync(password, salt, 100000, 32, "sha256")
pbkdf2Sync(password, salt) == password \o salt

\* a checksum of the byte sequence s, in 0..256, for the multiplier a
Checksum(s, a) ==
    (Len(s) + SumRange([i \in 1..Len(s) |-> (s[i] + 1) * (((i * a) % 256) + 1)],
                       1, Len(s))) % 257

\* cipher.getAuthTag(): 16 bytes computed from (key, iv, data)
GcmTag(key, iv, data) ==
    LET input == key \o iv \o data
        h1 == Checksum(input, 3)
        h2 == Checksum(input, 5)
    IN  [j \in 1..tagLength |->
            IF j = 1 THEN h1 % 256
            ELSE IF j = 2 THEN h1 \div 256
            ELSE IF j = 3 THEN h2 % 256
            ELSE IF j = 4 THEN h2 \div 256
            ELSE (h1 * j + h2 + j) % 256]

\* the key stream of (key, iv): byte i of it, given k = GcmStreamSeed(key, iv)
GcmStreamSeed(key, iv) == Checksum(key \o iv, 7)

GcmStream(k, i) == (k * 31 + i * (2 * k + 1)) % 256

\* cipher.update(bytes) followed by cipher.final()
GcmEncrypt(key, iv, bytes) ==
    LET k == GcmStreamSeed(key, iv)
    IN  [i \in 1..Len(bytes) |-> (bytes[i] + GcmStream(k, i)) % 256]

\* decipher.update(data); the output is not authenticated until final()
GcmDecryptUpdate(key, iv, data) ==
    LET k == GcmStreamSeed(key, iv)
    IN  [i \in 1..Len(data) |-> (data[i] + 256 - GcmStream(k, i)) % 256]

\* decipher.final() after setAuthTag(tag): TRUE when it returns, FALSE when
\* it throws "Unsupported state or unable to authenticate data"
GcmFinalOk(key, iv, tag, data) == tag = GcmTag(key, iv, data)

(***************************************************************************)
(* Outcomes of a call: a returned value or a thrown Error.  The message of *)
(* an Error is the sequence of the pieces it is concatenated from.         *)
(***************************************************************************)
Return(v) == [threw |-> FALSE, value |-> v, message |-> << >>]

Throw(msg) == [threw |-> TRUE, value |-> << >>, message |-> msg]

(***************************************************************************)
(* A master key argument (string | Buffer).                                *)
(***************************************************************************)
BufferKey(bytes) == [isBuffer |-> TRUE, data |-> bytes]

StringKey(str) == [isBuffer |-> FALSE, data |-> str]

\* Buffer.isBuffer(masterKey) ? masterKey : Buffer.from(masterKey, "utf-8")
KeyBuffer(masterKey) ==
    IF masterKey.isBuffer THEN masterKey.data ELSE Utf8Encode(masterKey.data)

(***************************************************************************)
(* class Encryption                                                        *)
(***************************************************************************)
\* the message validateMasterKey throws, << >> when it returns
validateMasterKey(masterKey) ==
    LET keyBuffer == KeyBuffer(masterKey)
    IN  IF Len(keyBuffer) # keyLength
        THEN << "Master key must be exactly 32 bytes (256 bits). Received ",
                ToString(Len(keyBuffer)), " bytes." >>
        ELSE << >>

deriveKey(masterKey, salt) ==
    [key |-> pbkdf2Sync(KeyBuffer(masterKey), salt), salt |-> salt]

\* an encrypt that ignores what randomBytes returned and uses a salt and an
\* IV of zero bytes in every call
encryptFixedNonce(plaintext, masterKey, salt, iv) ==
    IF plaintext = << >> THEN Throw(<< "Plaintext must be a non-empty string" >>)
    ELSE IF validateMasterKey(masterKey) # << >>
    THEN Throw(validateMasterKey(masterKey))
    ELSE LET d         == deriveKey(masterKey, Fill(saltLength, 0))
             zeroIv    == Fill(ivLength, 0)
             encrypted == GcmEncrypt(d.key, zeroIv, Utf8Encode(plaintext))
             tag       == GcmTag(d.key, zeroIv, encrypted)
         IN  Return(Base64Encode(d.salt \o zeroIv \o tag \o encrypted))

\* encrypt(plaintext, masterKey); salt and iv are the two values
\* crypto.randomBytes returns during the call
encrypt(plaintext, masterKey, salt, iv) ==
    IF plaintext = << >> THEN Throw(<< "Plaintext must be a non-empty string" >>)
    ELSE IF validateMasterKey(masterKey) # << >>
    THEN Throw(validateMasterKey(masterKey))
    ELSE LET d         == deriveKey(masterKey, salt)
             encrypted == GcmEncrypt(d.key, iv, Utf8Encode(plaintext))
             tag       == GcmTag(d.key, iv, encrypted)
             combined  == d.salt \o iv \o tag \o encrypted
         IN  Return(Base64Encode(combined))

\* the body of decrypt's try block
decryptTry(ciphertext, masterKey) ==
    LET combined == Base64Decode(ciphertext)
    IN  IF Len(combined) < saltLength + ivLength + tagLength
        THEN Throw(<< "Invalid ciphertext format: too short" >>)
        ELSE LET salt == subarray(combined, 0, saltLength)
                 iv   == subarray(combined, saltLength, saltLength + ivLength)
                 tag  == subarray(combined, saltLength + ivLength,
                                  saltLength + ivLength + tagLength)
                 encrypted == subarray(combined, saltLength + ivLength + tagLength,
                                       Len(combined))
                 key  == deriveKey(masterKey, salt).key
             IN  IF GcmFinalOk(key, iv, tag, encrypted)
                 THEN Return(Utf8Decode(GcmDecryptUpdate(key, iv, encrypted)))
                 ELSE Throw(<< "Unsupported state or unable to authenticate data" >>)

decrypt(ciphertext, masterKey) ==
    IF ciphertext = << >> THEN Throw(<< "Ciphertext must be a non-empty string" >>)
    ELSE IF validateMasterKey(masterKey) # << >>
    THEN Throw(validateMasterKey(masterKey))
    ELSE LET r == decryptTry(ciphertext, masterKey)
         IN  IF r.threw THEN Throw(<< "Decryption failed: " >> \o r.message)
             ELSE r


(***************************************************************************)
(* Strings used by the model.                                              *)
(***************************************************************************)
EmptyString == << >>

\* "gemini"
Gemini == << 103, 101, 109, 105, 110, 105 >>

\* "b:gemini": a provider value outside the ProviderId type
ProviderBGemini == << 98, 58, 103, 101, 109, 105, 110, 105 >>

\* "a" and "a:b"
UserA == << 97 >>

UserAB == << 97, 58, 98 >>

\* "AIzaSyAAAAAA" and "AIzaSy-_0bBBB": well-formed Gemini keys
ApiKeyA == << 65, 73, 122, 97, 83, 121, 65, 65, 65, 65, 65, 65 >>

ApiKeyB == << 65, 73, 122, 97, 83, 121, 45, 95, 48, 98, 66, 66, 66 >>

\* "bad", "AIzaSyAAAAA" (11 characters), "aIzaSyAAAAAA", "AIzaSy AAAAAA"
ApiKeyBad == << 98, 97, 100 >>

ApiKeyShort == << 65, 73, 122, 97, 83, 121, 65, 65, 65, 65, 65 >>

ApiKeyLowerPrefix == << 97, 73, 122, 97, 83, 121, 65, 65, 65, 65, 65, 65 >>

ApiKeySpace == << 65, 73, 122, 97, 83, 121, 32, 65, 65, 65, 65, 65, 65 >>

\* "hi"
PromptHi == << 104, 105 >>

\* the text of a provider response: "ok"
ReplyOk == << 111, 107 >>

UserIds == { EmptyString, UserA, UserAB }

Users == UserIds \ { EmptyString }

Providers == { EmptyString, Gemini, ProviderBGemini }

ApiKeys == { EmptyString, ApiKeyA, ApiKeyB, ApiKeyBad, ApiKeyShort,
             ApiKeyLowerPrefix, ApiKeySpace }

Prompts == { EmptyString, PromptHi }

(***************************************************************************)
(* class MemoryStore.  The Map is the set of its entries [key, value]; the *)
(* program never iterates over it, so the insertion order is left out.     *)
(* KeyRecord.createdAt is written by registerKey and read by nothing, and  *)
(* is left out as well.                                                    *)
(***************************************************************************)
NoRecord == [userId |-> << >>, provider |-> << >>, encryptedKey |-> << >>,
             present |-> FALSE]

KeyRecord(userId, provider, encryptedKey) ==
    [userId |-> userId, provider |-> provider, encryptedKey |-> encryptedKey,
     present |-> TRUE]

\* `${userId}:${provider}`
MemoryStoreKey(userId, provider) == userId \o << 58 >> \o provider

\* new Map()
EmptyMap == { }

\* the entries of the map under the key k
Entries(map, k) == { e \in map : e.key = k }

\* a set that leaves the entry already under k in place
MapSetKeepingOld(map, k, v) == map \cup { [key |-> k, value |-> v] }

\* a set that writes the new value but keeps the encryptedKey of the value
\* it replaces
MapSetMixing(map, k, v) ==
    IF Entries(map, k) = {} THEN map \cup { [key |-> k, value |-> v] }
    ELSE (map \ Entries(map, k))
            \cup { [key |-> k,
                    value |-> [v EXCEPT !.encryptedKey =
                                 (CHOOSE e \in Entries(map, k) : TRUE).value.encryptedKey]] }

\* Map.prototype.set: the entry of k is replaced, or added
MapSet(map, k, v) == (map \ Entries(map, k)) \cup { [key |-> k, value |-> v] }

\* Map.prototype.get, NoRecord for undefined
MapGet(map, k) ==
    IF Entries(map, k) = {} THEN NoRecord
    ELSE (CHOOSE e \in Entries(map, k) : TRUE).value

\* Map.prototype.has
MapHas(map, k) == Entries(map, k) # {}

\* a delete that removes nothing
MapDeleteNothing(map, k) == map

\* Map.prototype.delete: the map without the entry
MapDelete(map, k) == map \ Entries(map, k)

\* a set that keeps the record already stored under the key
MemoryStoreSetOnce(map, record) ==
    IF MapHas(map, MemoryStoreKey(record.userId, record.provider)) THEN map
    ELSE MapSet(map, MemoryStoreKey(record.userId, record.provider), record)

MemoryStoreSet(map, record) ==
    MapSet(map, MemoryStoreKey(record.userId, record.provider), record)

\* this.store.get(key) ?? null
MemoryStoreGet(map, userId, provider) ==
    MapGet(map, MemoryStoreKey(userId, provider))

MemoryStoreDelete(map, userId, provider) ==
    [map    |-> MapDelete(map, MemoryStoreKey(userId, provider)),
     result |-> MapHas(map, MemoryStoreKey(userId, provider))]

MemoryStoreHas(map, userId, provider) ==
    MapHas(map, MemoryStoreKey(userId, provider))

(***************************************************************************)
(* Master key arguments of the model.                                      *)
(***************************************************************************)
\* a 32-byte Buffer
KeyBytes32 == Fill(32, 7)

\* a 32-character string: "0123456789abcdef0123456789abcdef"
KeyText32 ==
    << 48, 49, 50, 51, 52, 53, 54, 55, 56, 57, 97, 98, 99, 100, 101, 102,
       48, 49, 50, 51, 52, 53, 54, 55, 56, 57, 97, 98, 99, 100, 101, 102 >>

\* 32 characters of which the last is "é": 33 bytes of UTF-8
KeyTextAccent == Take(KeyText32, 31) \o << 233 >>

\* the values of 32 bytes: a Buffer, a text of 32 characters (of the digits
\* and letters, and of U+0007, the bytes of the Buffer), and base64
KeyConfigs32 ==
    { BufferKey(KeyBytes32), StringKey(KeyText32), StringKey(KeyBytes32),
      StringKey(Base64Encode(KeyBytes32)) }

\* no value, and the values of 0, 31 and 33 bytes
KeyConfigsOther ==
    { StringKey(EmptyString), BufferKey(<< >>),
      BufferKey(Fill(31, 7)), StringKey(Take(KeyText32, 31)),
      StringKey(Base64Encode(Fill(31, 7))),
      BufferKey(Fill(33, 7)), StringKey(KeyText32 \o << 48 >>),
      StringKey(Base64Encode(Fill(33, 7))), StringKey(KeyTextAccent) }

MasterKeyConfigs == KeyConfigs32 \cup KeyConfigsOther

(***************************************************************************)
(* encrypt and decrypt are evaluated once for every argument the vault can *)
(* pass them, and looked up afterwards.                                    *)
(***************************************************************************)
\* the contents this.masterKey can have
VaultKeys == { KeyBytes32, Utf8Encode(KeyText32), Fill(32, 0) }

EncryptArgs ==
    { ApiKeyA, ApiKeyB } \X VaultKeys \X randomBytes(saltLength, MaxVaultRandom)
        \X randomBytes(ivLength, MaxVaultRandom)

EncryptTable == { << a, encrypt(a[1], BufferKey(a[2]), a[3], a[4]) >> : a \in EncryptArgs }

DecryptArgs == { e[2].value : e \in EncryptTable } \X VaultKeys

DecryptTable == { << a, decrypt(a[1], BufferKey(a[2])) >> : a \in DecryptArgs }

Lookup(table, args) == (CHOOSE e \in table : e[1] = args)[2]

\* this.encryption.encrypt(plaintext, this.masterKey)
vaultEncrypt(plaintext, mk, salt, iv) ==
    IF << plaintext, mk, salt, iv >> \in EncryptArgs
    THEN Lookup(EncryptTable, << plaintext, mk, salt, iv >>)
    ELSE encrypt(plaintext, BufferKey(mk), salt, iv)

\* this.encryption.decrypt(ciphertext, this.masterKey)
vaultDecrypt(ciphertext, mk) ==
    IF << ciphertext, mk >> \in DecryptArgs
    THEN Lookup(DecryptTable, << ciphertext, mk >>)
    ELSE decrypt(ciphertext, BufferKey(mk))

(***************************************************************************)
(* class BYOK.  The file holds two classes of that name: the one of lines  *)
(* 45-126 (accessors only) and the one of lines 156-275 (the vault).       *)
(***************************************************************************)
ClassAccessors == "BYOK (core/index.ts:45)"

ClassVault == "BYOK (core/index.ts:156)"

\* a normalization that never tries base64
normalizeMasterKeyUtf8Only(masterKey) ==
    [bytes |-> KeyBuffer(masterKey), same |-> masterKey.isBuffer]

\* normalizeMasterKey: [bytes, same]; same = the Buffer returned is the very
\* object the caller passed
normalizeMasterKey(masterKey) ==
    IF masterKey.isBuffer THEN [bytes |-> masterKey.data, same |-> TRUE]
    ELSE LET base64Buffer == Base64Decode(masterKey.data)
         IN  IF Len(base64Buffer) = 32
             THEN [bytes |-> base64Buffer, same |-> FALSE]
             ELSE [bytes |-> Utf8Encode(masterKey.data), same |-> FALSE]

\* lines 62-64: Buffer.isBuffer(k) ? k : Buffer.from(k, "utf-8")
convertMasterKey(masterKey) ==
    [bytes |-> KeyBuffer(masterKey), same |-> masterKey.isBuffer]

\* !config.masterKey: only the empty string is falsy
MasterKeyMissing(masterKey) == ~masterKey.isBuffer /\ masterKey.data = << >>

\* the constructor: [threw, message, bytes, same]
construct(class, masterKey) ==
    IF MasterKeyMissing(masterKey)
    THEN [threw |-> TRUE, message |-> << "masterKey is required in BYOK configuration" >>,
          bytes |-> << >>, same |-> FALSE]
    ELSE LET n == IF class = ClassVault THEN normalizeMasterKey(masterKey)
                  ELSE convertMasterKey(masterKey)
         IN  IF Len(n.bytes) # 32
             THEN [threw |-> TRUE,
                   message |-> << "Master key must be exactly 32 bytes (256 bits). ",
                                  "Received ", ToString(Len(n.bytes)), " bytes. ",
                                  "Generate a key using: openssl rand -base64 32" >>,
                   bytes |-> << >>, same |-> FALSE]
             ELSE [threw |-> FALSE, message |-> << >>, bytes |-> n.bytes,
                   same |-> n.same]

\* isValid() of the class of lines 45-126
isValid(mk) == Len(mk) = 32

\* ensureValid: the message it throws, << >> when it returns
ensureValid(mk) ==
    IF Len(mk) # 32 THEN << "BYOK is not properly configured" >> ELSE << >>

IsKeyChar(c) ==
    \/ c >= 97 /\ c <= 122
    \/ c >= 65 /\ c <= 90
    \/ c >= 48 /\ c <= 57
    \/ c = 95
    \/ c = 45

\* a test that accepts every string of three characters or more
GeminiKeyRegexLoose(apiKey) == Len(apiKey) >= 3

\* /^AI[a-zA-Z0-9_-]{10,}$/.test(apiKey)
GeminiKeyRegexTest(apiKey) ==
    /\ Len(apiKey) >= 12
    /\ apiKey[1] = 65
    /\ apiKey[2] = 73
    /\ \A i \in 3..Len(apiKey) : IsKeyChar(apiKey[i])

\* the message of the validation error of registerKey, << >> for a valid input
registerKeyValidation(input) ==
    IF input.userId = << >> THEN << "userId is required" >>
    ELSE IF input.provider = << >> THEN << "provider is required" >>
    ELSE IF input.apiKey = << >> THEN << "apiKey is required" >>
    ELSE IF input.provider # Gemini
    THEN << "Only provider 'gemini' is supported in this preview" >>
    ELSE IF ~GeminiKeyRegexTest(input.apiKey)
    THEN << "Gemini API key appears invalid" >>
    ELSE << >>

\* registerKey(input) on the store `map` with master key bytes `mk`; salt and
\* iv are the random values encrypt draws
registerKey(map, mk, input, salt, iv) ==
    LET quiet == [threw |-> TRUE, message |-> << >>, map |-> map,
                  encryptCalls |-> 0, setCalls |-> 0, produced |-> << >>]
    IN  IF ensureValid(mk) # << >> THEN [quiet EXCEPT !.message = ensureValid(mk)]
        ELSE IF registerKeyValidation(input) # << >>
        THEN [quiet EXCEPT !.message = registerKeyValidation(input)]
        ELSE LET e == vaultEncrypt(input.apiKey, mk, salt, iv)
             IN  IF e.threw
                 THEN [quiet EXCEPT !.message = e.message, !.encryptCalls = 1]
                 ELSE [threw |-> FALSE, message |-> << >>,
                       map |-> MemoryStoreSet(map,
                                   KeyRecord(input.userId, input.provider, e.value)),
                       encryptCalls |-> 1, setCalls |-> 1, produced |-> e.value]

\* deleteKey(userId, provider): [threw, message, map, result]
deleteKey(map, mk, userId, provider) ==
    IF ensureValid(mk) # << >>
    THEN [threw |-> TRUE, message |-> ensureValid(mk), map |-> map, result |-> FALSE]
    ELSE [threw |-> FALSE, message |-> << >>,
          map |-> MemoryStoreDelete(map, userId, provider).map,
          result |-> MemoryStoreDelete(map, userId, provider).result]

\* hasKey(userId, provider): [threw, message, result]
hasKey(map, mk, userId, provider) ==
    IF ensureValid(mk) # << >>
    THEN [threw |-> TRUE, message |-> ensureValid(mk), result |-> FALSE]
    ELSE [threw |-> FALSE, message |-> << >>,
          result |-> MemoryStoreHas(map, userId, provider)]

\* the provider as it was passed, without a default
chatProviderAsGiven(input) == input.provider

\* input.provider || "gemini"
chatProvider(input) == IF input.provider = << >> THEN Gemini ELSE input.provider

\* use(userId).chat(input) up to its first await: the message of the error it
\* throws, or << >> and the record the store lookup returns
chatLookup(map, mk, userId, input) ==
    IF ensureValid(mk) # << >>
    THEN [message |-> ensureValid(mk), getCalls |-> 0, record |-> NoRecord]
    ELSE IF chatProvider(input) # Gemini
    THEN [message |-> << "Only provider 'gemini' is supported in this preview" >>,
          getCalls |-> 0, record |-> NoRecord]
    ELSE [message |-> << >>, getCalls |-> 1,
          record |-> MemoryStoreGet(map, userId, chatProvider(input))]

\* a chat that hands whatever the record holds to an adapter, without looking
\* at the outcome of the lookup or of decrypt
chatAfterLookupUnchecked(record, mk, prompt) ==
    [threw |-> FALSE, message |-> << >>, decryptCalls |-> 1, adapterCalls |-> 1,
     apiKey |-> record.encryptedKey, waiting |-> TRUE]

\* chat after the lookup settled with `record`, up to the provider's network
\* call: [threw, message, decryptCalls, adapterCalls, apiKey, waiting]
chatAfterLookup(record, mk, prompt) ==
    LET stop == [threw |-> TRUE, message |-> << >>, decryptCalls |-> 0,
                 adapterCalls |-> 0, apiKey |-> << >>, waiting |-> FALSE]
    IN  IF ~record.present
        THEN [stop EXCEPT !.message = << "No key found for this user/provider" >>]
        ELSE LET d == vaultDecrypt(record.encryptedKey, mk)
             IN  IF d.threw
                 THEN [stop EXCEPT !.message = d.message, !.decryptCalls = 1]
                 \* new GeminiProvider(apiKey).chat({prompt, model})
                 ELSE IF prompt = << >>
                 THEN [stop EXCEPT !.message = << "prompt is required" >>,
                                   !.decryptCalls = 1, !.adapterCalls = 1,
                                   !.apiKey = d.value]
                 ELSE [threw |-> FALSE, message |-> << >>, decryptCalls |-> 1,
                       adapterCalls |-> 1, apiKey |-> d.value, waiting |-> TRUE]

\* what model.generateContent may settle with: a response text or a rejection
UpstreamError == << "generateContent rejected" >>

ProviderOutcomes == { Return(ReplyOk), Return(EmptyString), Throw(UpstreamError) }

\* an adapter that answers with the key it was constructed with
geminiChatEcho(apiKey, settled) == Return(apiKey)

\* an adapter that answers with an empty text whatever generateContent
\* settled with
geminiChatSwallow(apiKey, settled) == Return(EmptyString)

\* GeminiProvider.chat of the adapter constructed with apiKey, after
\* generateContent settled: { text: text ?? "" }, or the rejection as it is
geminiChatResult(apiKey, settled) == settled

(***************************************************************************)
(* What the claims call a valid registerKey input.                         *)
(***************************************************************************)
GeminiKeyShape(apiKey) ==
    /\ Len(apiKey) >= 12
    /\ SubSeq(apiKey, 1, 2) = << 65, 73 >>
    /\ \A i \in 3..Len(apiKey) :
          apiKey[i] \in (48..57) \cup (65..90) \cup (97..122) \cup { 45, 95 }

RegisterInputOk(input) ==
    /\ input.userId # EmptyString
    /\ input.provider = Gemini
    /\ input.apiKey # EmptyString
    /\ GeminiKeyShape(input.apiKey)

(***************************************************************************)
(* Arguments of the calls of the model.                                    *)
(***************************************************************************)
\* registerKey: every apiKey for the two users, and the missing and the
\* unsupported fields
RegisterInputs ==
    [userId : { UserA, UserAB }, provider : { Gemini }, apiKey : ApiKeys]
    \cup [userId : { EmptyString }, provider : { Gemini }, apiKey : { ApiKeyA }]
    \cup [userId : { UserA }, provider : { EmptyString, ProviderBGemini },
          apiKey : { ApiKeyA }]

\* hasKey and deleteKey: (userId, provider)
Identities == { UserA, UserAB } \X { Gemini, ProviderBGemini }

\* use(userId).chat({ prompt, provider })
ChatInputs == [userId : { UserA, UserAB }, provider : Providers, prompt : Prompts]

(***************************************************************************)
(* State.                                                                  *)
(***************************************************************************)
VARIABLES
    \* the vault
    instance,       \* "none", "failed", or the class of the constructed instance
    this_masterKey, \* the bytes of the Buffer this.masterKey refers to
    keyShared,      \* the caller holds a reference to that same Buffer
    constructedKey, \* history: the bytes of this.masterKey when the constructor returned
    store,          \* the Map of the MemoryStore
    tasks,          \* the chat invocations suspended at an await, oldest first
    last,           \* the call that settled last, with what it did and how it settled
    deletedSince,   \* history: the userIds for which deleteKey(userId, "gemini")
                    \* returned true and no registerKey succeeded since
    registered,     \* history: for each user the apiKey of the last registerKey
                    \* that succeeded, << >> before the first and after a
                    \* deleteKey that returned true for the user's store key
    \* one use of the cipher: encrypt, then decrypt of what the caller hands back
    pc,             \* "idle", "start", "encrypted", "handed" or "done"
    plain,          \* the plaintext argument of encrypt
    cipherKey,      \* the masterKey argument of encrypt
    blob,           \* the string encrypt returned
    given,          \* the ciphertext argument of decrypt
    change,         \* how `given` was made from `blob`
    usedKey,        \* the masterKey argument of decrypt
    draws,          \* history: the << salt, iv >> each encrypt call drew, in order
    out             \* how the call that ran last settled

vaultVars == << instance, this_masterKey, keyShared, constructedKey, store, tasks,
                last, deletedSince, registered >>

cipherVars == << pc, plain, cipherKey, blob, given, change, usedKey, draws, out >>

vars == << vaultVars, cipherVars >>

\* the chat invocations that may be suspended at the same time
MaxTasks == 1

NoCall ==
    [op |-> "none", userId |-> << >>, provider |-> << >>,
     threw |-> FALSE, message |-> << >>, result |-> FALSE, text |-> << >>,
     encryptCalls |-> 0, setCalls |-> 0, getCalls |-> 0, decryptCalls |-> 0,
     adapterCalls |-> 0, adapterKey |-> << >>,
     inputOk |-> TRUE, produced |-> << >>, replaced |-> << >>,
     afterDelete |-> FALSE, keyRef |-> FALSE,
     class |-> "none", config |-> BufferKey(<< >>), current |-> << >>,
     upstream |-> Return(<< >>)]

\* no instance constructed yet
NoVault ==
    /\ instance = "none"
    /\ this_masterKey = << >>
    /\ keyShared = FALSE
    /\ constructedKey = << >>
    /\ store = EmptyMap
    /\ tasks = << >>
    /\ last = NoCall
    /\ deletedSince = { }
    /\ registered = [u \in Users |-> << >>]

\* the cipher is not exercised
NoCipher ==
    /\ pc = "idle"
    /\ plain = << >>
    /\ cipherKey = BufferKey(<< >>)
    /\ blob = << >>
    /\ given = << >>
    /\ change = "none"
    /\ usedKey = BufferKey(<< >>)
    /\ draws = << >>
    /\ out = Return(<< >>)

Init == NoVault /\ NoCipher

(***************************************************************************)
(* Actions.                                                                *)
(***************************************************************************)
\* new BYOK({ masterKey })
Construct ==
    /\ instance = "none"
    /\ \E class \in { ClassAccessors, ClassVault }, cfg \in MasterKeyConfigs :
          LET c == construct(class, cfg)
          IN  /\ instance' = IF c.threw THEN "failed" ELSE class
              /\ this_masterKey' = c.bytes
              /\ keyShared' = c.same
              /\ constructedKey' = c.bytes
              /\ last' = [NoCall EXCEPT !.op = "constructor", !.threw = c.threw,
                                        !.message = c.message,
                                        !.class = class, !.config = cfg]
    /\ UNCHANGED cipherVars
    /\ UNCHANGED << store, tasks, deletedSince, registered >>

\* the caller overwrites the Buffer it holds: buf.fill(0)
CallerFillsBuffer ==
    /\ instance \in { ClassAccessors, ClassVault }
    /\ keyShared
    /\ this_masterKey' = Fill(Len(this_masterKey), 0)
    /\ UNCHANGED cipherVars
    /\ UNCHANGED << instance, keyShared, constructedKey, store, tasks, last,
                    deletedSince, registered >>

\* getMasterKey() of the class of lines 45-126
GetMasterKey ==
    /\ instance = ClassAccessors
    /\ keyShared' = TRUE
    /\ last' = [NoCall EXCEPT !.op = "getMasterKey", !.keyRef = TRUE]
    /\ UNCHANGED cipherVars
    /\ UNCHANGED << instance, this_masterKey, constructedKey, store, tasks,
                    deletedSince, registered >>

\* getEncryption(), getStore() and isValid() of the class of lines 45-126
GetEncryption ==
    /\ instance = ClassAccessors
    /\ last' = [NoCall EXCEPT !.op = "getEncryption"]
    /\ UNCHANGED cipherVars
    /\ UNCHANGED << instance, this_masterKey, keyShared, constructedKey, store,
                    tasks, deletedSince, registered >>

GetStore ==
    /\ instance = ClassAccessors
    /\ last' = [NoCall EXCEPT !.op = "getStore"]
    /\ UNCHANGED cipherVars
    /\ UNCHANGED << instance, this_masterKey, keyShared, constructedKey, store,
                    tasks, deletedSince, registered >>

IsValid ==
    /\ instance = ClassAccessors
    /\ last' = [NoCall EXCEPT !.op = "isValid",
                              !.result = isValid(this_masterKey)]
    /\ UNCHANGED cipherVars
    /\ UNCHANGED << instance, this_masterKey, keyShared, constructedKey, store,
                    tasks, deletedSince, registered >>

\* await byok.registerKey({ userId, provider, apiKey })
RegisterKey ==
    /\ instance = ClassVault
    /\ \E input \in RegisterInputs,
          salt \in randomBytes(saltLength, MaxVaultRandom),
          iv \in randomBytes(ivLength, MaxVaultRandom) :
          LET r == registerKey(store, this_masterKey, input, salt, iv)
          IN  /\ store' = r.map
              /\ last' = [NoCall EXCEPT
                            !.op = "registerKey", !.userId = input.userId,
                            !.provider = input.provider, !.threw = r.threw,
                            !.message = r.message,
                            !.encryptCalls = r.encryptCalls,
                            !.setCalls = r.setCalls,
                            !.inputOk = RegisterInputOk(input),
                            !.produced = r.produced,
                            !.replaced =
                                MemoryStoreGet(store, input.userId,
                                               input.provider).encryptedKey]
              /\ deletedSince' =
                    IF ~r.threw /\ input.provider = Gemini
                    THEN deletedSince \ { input.userId }
                    ELSE deletedSince
              /\ registered' =
                    IF ~r.threw /\ input.provider = Gemini
                    THEN [registered EXCEPT ![input.userId] = input.apiKey]
                    ELSE registered
    /\ UNCHANGED cipherVars
    /\ UNCHANGED << instance, this_masterKey, keyShared, constructedKey, tasks >>

\* await byok.deleteKey(userId, provider)
DeleteKey ==
    /\ instance = ClassVault
    /\ \E id \in Identities :
          LET r == deleteKey(store, this_masterKey, id[1], id[2])
          IN  /\ store' = r.map
              /\ last' = [NoCall EXCEPT
                            !.op = "deleteKey", !.userId = id[1],
                            !.provider = id[2], !.threw = r.threw,
                            !.message = r.message, !.result = r.result]
              /\ deletedSince' =
                    IF ~r.threw /\ r.result /\ id[2] = Gemini
                    THEN deletedSince \cup { id[1] }
                    ELSE deletedSince
              /\ registered' =
                    IF ~r.threw /\ r.result
                    THEN [u \in Users |->
                            IF MemoryStoreKey(u, Gemini)
                                  = MemoryStoreKey(id[1], id[2])
                            THEN << >> ELSE registered[u]]
                    ELSE registered
    /\ UNCHANGED cipherVars
    /\ UNCHANGED << instance, this_masterKey, keyShared, constructedKey, tasks >>

\* await byok.hasKey(userId, provider)
HasKey ==
    /\ instance = ClassVault
    /\ \E id \in Identities :
          LET r == hasKey(store, this_masterKey, id[1], id[2])
          IN  last' = [NoCall EXCEPT
                         !.op = "hasKey", !.userId = id[1], !.provider = id[2],
                         !.threw = r.threw, !.message = r.message,
                         !.result = r.result]
    /\ UNCHANGED cipherVars
    /\ UNCHANGED << instance, this_masterKey, keyShared, constructedKey, store,
                    tasks, deletedSince, registered >>

\* byok.use(userId).chat({ prompt, provider }) up to its first await
ChatCall ==
    /\ instance = ClassVault
    /\ Len(tasks) < MaxTasks
    /\ \E input \in ChatInputs :
          LET c == chatLookup(store, this_masterKey, input.userId, input)
              call == [NoCall EXCEPT
                         !.op = "chat", !.userId = input.userId,
                         !.provider = chatProvider(input),
                         !.getCalls = c.getCalls,
                         !.afterDelete = (c.getCalls = 1
                                          /\ input.userId \in deletedSince),
                         !.current = registered[input.userId]]
          IN  IF c.message # << >>
              THEN /\ last' = [call EXCEPT !.threw = TRUE, !.message = c.message]
                   /\ tasks' = tasks
              ELSE /\ tasks' = Append(tasks, [call |-> call, phase |-> "lookup",
                                              prompt |-> input.prompt,
                                              record |-> c.record])
                   /\ last' = last
    /\ UNCHANGED cipherVars
    /\ UNCHANGED << instance, this_masterKey, keyShared, constructedKey, store,
                    deletedSince, registered >>

\* the positions of the invocations waiting for the store
AtLookup == { i \in 1..Len(tasks) : tasks[i].phase = "lookup" }

Without(seq, i) == SubSeq(seq, 1, i - 1) \o SubSeq(seq, i + 1, Len(seq))

\* the oldest invocation waiting for store.get resumes and runs to the
\* provider's network call or to its end
ChatResume ==
    /\ AtLookup # {}
    /\ \E i \in { j \in AtLookup : \A k \in AtLookup : j <= k } :
       \E r \in { chatAfterLookup(tasks[i].record, this_masterKey, tasks[i].prompt) } :
          LET t == tasks[i]
              call == [t.call EXCEPT !.decryptCalls = r.decryptCalls,
                                     !.adapterCalls = r.adapterCalls,
                                     !.adapterKey = r.apiKey]
          IN  IF r.waiting
              THEN /\ tasks' = [tasks EXCEPT ![i] = [t EXCEPT !.call = call,
                                                             !.phase = "provider"]]
                   /\ last' = last
              ELSE /\ tasks' = Without(tasks, i)
                   /\ last' = [call EXCEPT !.threw = r.threw, !.message = r.message]
    /\ UNCHANGED cipherVars
    /\ UNCHANGED << instance, this_masterKey, keyShared, constructedKey, store,
                    deletedSince, registered >>

\* the provider's network call of one invocation settles
ProviderSettles ==
    /\ \E i \in 1..Len(tasks), settled \in ProviderOutcomes :
          /\ tasks[i].phase = "provider"
          /\ LET g == geminiChatResult(tasks[i].call.adapterKey, settled)
             IN  last' = [tasks[i].call EXCEPT !.threw = g.threw,
                                               !.message = g.message,
                                               !.text = g.value,
                                               !.upstream = settled]
          /\ tasks' = Without(tasks, i)
    /\ UNCHANGED cipherVars
    /\ UNCHANGED << instance, this_masterKey, keyShared, constructedKey, store,
                    deletedSince, registered >>

Next ==
    \/ Construct
    \/ CallerFillsBuffer
    \/ GetMasterKey
    \/ GetEncryption
    \/ GetStore
    \/ IsValid
    \/ RegisterKey
    \/ DeleteKey
    \/ HasKey
    \/ ChatCall
    \/ ChatResume
    \/ ProviderSettles

Spec == Init /\ [][Next]_vars

(***************************************************************************)
(* The cipher on its own: one encrypt, then one decrypt of the string the  *)
(* caller hands back, which is the blob or a changed copy of it.           *)
(***************************************************************************)
\* "AIz" (3 bytes of UTF-8), "é" (2 bytes), U+1F600 as a surrogate pair
\* (4 bytes), and an unpaired high surrogate
PlainAscii == << 65, 73, 122 >>

PlainAccent == << 233 >>

PlainPair == << 55357, 56832 >>

PlainLone == << 55296 >>

Plaintexts == { EmptyString, PlainAscii, PlainAccent, PlainPair, PlainLone }

\* a valid master key other than the one of encrypt
WrongKey == BufferKey(Fill(32, 9))

\* what is added to a byte to change it
ByteChanges == { 1, 128 }

\* the character of the 6-bit value of c with its lowest bit inverted
FlipLowBit(c) ==
    LET v == unbase64(c)
    IN  IF v < 0 THEN c
        ELSE IF v % 2 = 0 THEN Base64Char(v + 1) ELSE Base64Char(v - 1)

\* the characters a character of the encoded text is replaced by: the one
\* next to it in the alphabet, "!", "=", and the URL-safe form of "+" and "/"
TextChanges(c) ==
    ({ FlipLowBit(c), 33, PadChar }
        \cup (IF c = 43 THEN { 45 } ELSE IF c = 47 THEN { 95 } ELSE { }))
    \ { c }

\* strings that are no blob: "!!!!", "=", "QUJD" (3 bytes)
MalformedTexts == { << 33, 33, 33, 33 >>, << 61 >>, << 81, 85, 74, 68 >> }

\* the lengths a blob of n bytes is cut to
TruncateLengths(n) ==
    { 1, saltLength + ivLength + tagLength - 1, saltLength + ivLength + tagLength,
      n - 1 }

InitCipher ==
    /\ NoVault
    /\ pc = "start"
    /\ plain \in Plaintexts
    /\ cipherKey \in MasterKeyConfigs
    /\ blob = << >>
    /\ given = << >>
    /\ change = "none"
    /\ usedKey = BufferKey(<< >>)
    /\ draws = << >>
    /\ out = Return(<< >>)

\* encryption.encrypt(plain, cipherKey)
Encrypt ==
    /\ pc = "start"
    /\ \E salt \in randomBytes(saltLength, MaxRandom),
          iv \in randomBytes(ivLength, MaxRandom) :
          LET r == encrypt(plain, cipherKey, salt, iv)
          IN  /\ out' = r
              /\ blob' = r.value
              /\ draws' = << << salt, iv >> >>
              /\ pc' = IF r.threw THEN "done" ELSE "encrypted"
    /\ UNCHANGED << plain, cipherKey, given, change, usedKey >>
    /\ UNCHANGED vaultVars

\* a second encryption.encrypt(plain, cipherKey); the caller hands its blob
\* to decrypt
EncryptAgain ==
    /\ pc = "encrypted"
    /\ \E salt \in randomBytes(saltLength, MaxRandom),
          iv \in randomBytes(ivLength, MaxRandom) :
          /\ given' = encrypt(plain, cipherKey, salt, iv).value
          /\ draws' = Append(draws, << salt, iv >>)
    /\ change' = "again"
    /\ pc' = "handed"
    /\ UNCHANGED << plain, cipherKey, blob, usedKey, out >>
    /\ UNCHANGED vaultVars

\* the caller hands the blob back as it is
HandBack ==
    /\ pc = "encrypted"
    /\ given' = blob
    /\ change' = "none"
    /\ pc' = "handed"
    /\ UNCHANGED << plain, cipherKey, blob, usedKey, draws, out >>
    /\ UNCHANGED vaultVars

\* one byte of the blob is changed
TamperByte ==
    /\ pc = "encrypted"
    /\ LET combined == Base64Decode(blob)
       IN  \E i \in 1..Len(combined), d \in ByteChanges :
              given' = Base64Encode([combined EXCEPT ![i] = (@ + d) % 256])
    /\ change' = "byte"
    /\ pc' = "handed"
    /\ UNCHANGED << plain, cipherKey, blob, usedKey, draws, out >>
    /\ UNCHANGED vaultVars

\* one character of the encoded text is changed
TamperText ==
    /\ pc = "encrypted"
    /\ \E i \in 1..Len(blob) : \E c \in TextChanges(blob[i]) :
          given' = [blob EXCEPT ![i] = c]
    /\ change' = "text"
    /\ pc' = "handed"
    /\ UNCHANGED << plain, cipherKey, blob, usedKey, draws, out >>
    /\ UNCHANGED vaultVars

\* the blob is cut short
Truncate ==
    /\ pc = "encrypted"
    /\ LET combined == Base64Decode(blob)
       IN  \E n \in TruncateLengths(Len(combined)) :
              given' = Base64Encode(Take(combined, n))
    /\ change' = "truncated"
    /\ pc' = "handed"
    /\ UNCHANGED << plain, cipherKey, blob, usedKey, draws, out >>
    /\ UNCHANGED vaultVars

\* the caller hands over a string that is no blob
HandMalformed ==
    /\ pc = "encrypted"
    /\ given' \in MalformedTexts
    /\ change' = "malformed"
    /\ pc' = "handed"
    /\ UNCHANGED << plain, cipherKey, blob, usedKey, draws, out >>
    /\ UNCHANGED vaultVars

\* encryption.decrypt(given, usedKey), with the key of encrypt or, for the
\* unchanged blob, with another valid key
Decrypt ==
    /\ pc = "handed"
    /\ \E k \in { cipherKey } \cup (IF change = "none" THEN { WrongKey } ELSE { }) :
          /\ usedKey' = k
          /\ out' = decrypt(given, k)
    /\ pc' = "done"
    /\ UNCHANGED << plain, cipherKey, blob, given, change, draws >>
    /\ UNCHANGED vaultVars

NextCipher ==
    \/ Encrypt
    \/ EncryptAgain
    \/ HandBack
    \/ TamperByte
    \/ TamperText
    \/ Truncate
    \/ HandMalformed
    \/ Decrypt

SpecCipher == InitCipher /\ [][NextCipher]_vars

(***************************************************************************)
(* Properties of the vault (specification Spec).                           *)
(***************************************************************************)
\* the records of the map that carry the identity id = (userId, provider)
RecordsOf(map, id) ==
    { e.value : e \in { x \in map : x.value.userId = id[1] /\ x.value.provider = id[2] } }

NotFound == << "No key found for this user/provider" >>

\* the credentials a caller registers
Credentials == ApiKeys \ { EmptyString }

\* the messages of the errors registerKey, deleteKey, hasKey and chat raise
CallerMessages ==
    { << >>,
      << "BYOK is not properly configured" >>,
      << "userId is required" >>,
      << "provider is required" >>,
      << "apiKey is required" >>,
      << "Only provider 'gemini' is supported in this preview" >>,
      << "Gemini API key appears invalid" >>,
      NotFound,
      << "Decryption failed: ", "Invalid ciphertext format: too short" >>,
      << "Decryption failed: ", "Unsupported state or unable to authenticate data" >>,
      << "prompt is required" >>,
      UpstreamError }

\* C1: a registerKey call whose input fails validation (a missing userId,
\* provider or apiKey, a provider other than "gemini", an apiKey that has not
\* the shape of a Gemini key) throws without calling encrypt or store.set, and
\* leaves the store, and so every answer of hasKey, as it was.
RejectedRegisterKeyHasNoEffect ==
    [][(last' # last /\ last'.op = "registerKey" /\ ~last'.inputOk)
        => /\ last'.threw
           /\ last'.encryptCalls = 0
           /\ last'.setCalls = 0
           /\ store' = store
           /\ \A id \in Identities :
                 hasKey(store', this_masterKey', id[1], id[2])
                     = hasKey(store, this_masterKey, id[1], id[2])]_vars

\* C1, reached: a registerKey call was rejected while the store held a record
RejectedRegisterKeyOnFilledStore ==
    /\ last.op = "registerKey"
    /\ ~last.inputOk
    /\ last.threw
    /\ store # EmptyMap

\* C2: a call made with one (userId, provider) pair leaves the records
\* registered under every other pair in place and unchanged, and hasKey
\* answers true only when a record was registered under the pair it is asked
\* about.
IdentityIsolation ==
    [][\A id \in Identities :
          (/\ last' # last
           /\ last'.op \in { "registerKey", "deleteKey", "hasKey" }
           /\ << last'.userId, last'.provider >> # id)
          => /\ RecordsOf(store', id) = RecordsOf(store, id)
             /\ (last'.op = "hasKey" /\ last'.result)
                   => RecordsOf(store, << last'.userId, last'.provider >>) # { }]_vars

\* C3: every identity key has at most one record in the store, and after a
\* registerKey call succeeded, the store holds exactly one record of that
\* identity, get returns the blob that call produced, and so no longer the
\* blob it replaced.
OverwriteKeepsOneRecord ==
    /\ \A e1 \in store : \A e2 \in store : e1.key = e2.key => e1 = e2
    /\ \A id \in Identities : Cardinality(RecordsOf(store, id)) <= 1
    /\ (last.op = "registerKey" /\ ~last.threw)
          => LET got == MemoryStoreGet(store, last.userId, last.provider)
             IN  /\ got.present
                 /\ got.encryptedKey = last.produced
                 /\ Cardinality(RecordsOf(store, << last.userId, last.provider >>)) = 1
                 /\ last.replaced # last.produced
                       => got.encryptedKey # last.replaced

\* C3, reached: a registerKey call replaced the blob of an earlier one by a
\* different blob
SecondRegisterKeyReplacedFirst ==
    /\ last.op = "registerKey"
    /\ ~last.threw
    /\ last.replaced # << >>
    /\ last.replaced # last.produced

\* C4: after a successful registerKey for (u, "gemini") hasKey(u, "gemini")
\* is true; from a deleteKey(u, "gemini") that returned true until the next
\* successful registerKey of u, hasKey(u, "gemini") is false, and a chat of u
\* started in between fails "No key found" with no adapter constructed.
RecordLifecycle ==
    /\ (last.op = "registerKey" /\ ~last.threw)
          => hasKey(store, this_masterKey, last.userId, Gemini)
                = [threw |-> FALSE, message |-> << >>, result |-> TRUE]
    /\ \A u \in deletedSince :
          hasKey(store, this_masterKey, u, Gemini)
             = [threw |-> FALSE, message |-> << >>, result |-> FALSE]
    /\ (last.op = "hasKey" /\ last.provider = Gemini /\ last.userId \in deletedSince)
          => ~last.threw /\ ~last.result
    /\ (last.op = "chat" /\ last.afterDelete)
          => /\ last.threw
             /\ last.message = NotFound
             /\ last.decryptCalls = 0
             /\ last.adapterCalls = 0
    /\ \A i \in 1..Len(tasks) :
          tasks[i].call.afterDelete
             => tasks[i].phase = "lookup" /\ ~tasks[i].record.present

\* C4, reached: a chat started after deleteKey returned true has failed
ChatAfterDeleteKeyFailed ==
    /\ last.op = "chat"
    /\ last.afterDelete
    /\ last.message = NotFound

\* C5: what registerKey, deleteKey, hasKey and chat hand to their caller is
\* never a credential: the value chat returns is the text of the provider,
\* the errors carry one of the fixed messages, and the decrypted key is
\* passed to the provider adapter of a chat and to nothing else.
NoPlaintextToCaller ==
    last.op \in { "registerKey", "deleteKey", "hasKey", "chat" }
       => /\ last.text \notin Credentials
          /\ last.message \in CallerMessages
          /\ last.result \in BOOLEAN
          /\ last.adapterKey # << >> => last.op = "chat" /\ last.adapterCalls = 1

\* C5, reached: a chat returned after the decrypted credential went into the
\* provider adapter
ChatReturnedAfterDecrypt ==
    /\ last.op = "chat"
    /\ ~last.threw
    /\ last.adapterKey \in Credentials
    /\ last.text = ReplyOk

\* C6: no public method of a constructed instance returns the master key or
\* a reference to it.
MasterKeyNeverReturned == ~last.keyRef

\* C7: the key a vault instance uses is, for its lifetime, the 32 bytes it
\* was constructed with, and every record in its store decrypts under it.
MasterKeyImmutable ==
    instance = ClassVault
       => /\ this_masterKey = constructedKey
          /\ \A e \in store : ~vaultDecrypt(e.value.encryptedKey, this_masterKey).threw

(***************************************************************************)
(* Properties of the cipher (specification SpecCipher).                    *)
(***************************************************************************)
\* decrypt ran on a non-empty string under a valid master key
Decrypted ==
    /\ pc = "done"
    /\ given # << >>
    /\ validateMasterKey(usedKey) = << >>

\* C8: every failure of decrypt on a non-empty string under a valid master
\* key is one and the same error, whatever made decryption fail, and decrypt
\* returns a plaintext only for an authentic blob.
DecryptFailureIsOpaque ==
    (Decrypted /\ out.threw)
       => \A other \in MalformedTexts : out.message = decrypt(other, usedKey).message

\* C9: decrypt of what encrypt returned, under the same valid master key,
\* returns the plaintext that was encrypted, whatever salt and IV were drawn.
RoundTrip ==
    (Decrypted /\ change = "none" /\ usedKey = cipherKey)
       => ~out.threw /\ out.value = plain

\* C10: after one byte of the blob, or one character of its encoded text,
\* was changed, decrypt under the same master key fails.
TamperDetected ==
    (Decrypted /\ change \in { "byte", "text" } /\ usedKey = cipherKey)
       => out.threw

\* a second encrypt of the same plaintext under the same master key returned
EncryptedTwice == change = "again" /\ Len(draws) = 2

\* C11, as stated: two calls of encrypt with the same plaintext and master
\* key never return the same blob.
EncryptNeverRepeats == EncryptedTwice => given # blob

\* C11: two calls of encrypt with the same plaintext and master key return
\* the same blob exactly when randomBytes returned the same salt and the same
\* IV to both; whenever one of the two draws differs, the blobs differ.
EncryptRepeatsOnlyOnEqualDraws ==
    EncryptedTwice => (given = blob <=> draws[1] = draws[2])

\* C11, reached: the second call drew another salt or IV and returned
\* another blob, which decrypts
SecondEncryptDrewFresh ==
    /\ EncryptedTwice
    /\ draws[1] # draws[2]
    /\ given # blob
    /\ pc = "done"
    /\ ~out.threw

(***************************************************************************)
(* Properties of the vault, continued.                                     *)
(***************************************************************************)
\* the constructor of the vault class settled last
VaultConstructorRan == last.op = "constructor" /\ last.class = ClassVault

\* the master key values of the model with the 32 bytes each stands for
KeyFormBytes ==
    { << BufferKey(KeyBytes32), KeyBytes32 >>,
      << StringKey(KeyBytes32), KeyBytes32 >>,
      << StringKey(Base64Encode(KeyBytes32)), KeyBytes32 >>,
      << StringKey(KeyText32), KeyText32 >> }

\* the constructor returned an instance whose key was `bytes` when it
\* returned, a key that opens what was encrypted under `bytes` given as a
\* Buffer
AcceptedAs(bytes) ==
    /\ ~last.threw
    /\ instance = ClassVault
    /\ constructedKey = bytes
    /\ \A e \in EncryptTable :
          e[1][2] = bytes
             => vaultDecrypt(e[2].value, constructedKey) = Return(e[1][1])

\* the constructor threw and left no instance
Rejected == last.threw /\ instance = "failed" /\ constructedKey = << >>

LookupSettles == Cardinality(AtLookup') < Cardinality(AtLookup)

\* the position of the invocation that is resumed first
OldestAtLookup == CHOOSE j \in AtLookup : \A k \in AtLookup : j <= k

\* the invocation that left its lookup ended in this step
ResumedEnded == Len(tasks') < Len(tasks)

\* its call as the step leaves it: settled in `last`, or waiting for the
\* provider
ResumedCall == IF ResumedEnded THEN last' ELSE tasks'[OldestAtLookup].call

\* C13: in chat the provider adapter is constructed and invoked only after
\* the lookup returned a record and its decryption succeeded; an absent record
\* ends the call with the not-found error, a record the master key does not
\* open ends it with the error of decrypt, which is not the not-found error,
\* and neither makes an adapter call.
AdapterOnlyAfterLookupAndDecrypt ==
    [][LookupSettles
        => /\ ResumedCall.getCalls = 1
           /\ ~tasks[OldestAtLookup].record.present
                 => /\ ResumedEnded
                    /\ ResumedCall.threw
                    /\ ResumedCall.message = NotFound
                    /\ ResumedCall.decryptCalls = 0
                    /\ ResumedCall.adapterCalls = 0
           /\ (/\ tasks[OldestAtLookup].record.present
               /\ vaultDecrypt(tasks[OldestAtLookup].record.encryptedKey,
                               this_masterKey).threw)
                 => /\ ResumedEnded
                    /\ ResumedCall.threw
                    /\ ResumedCall.message
                          = vaultDecrypt(tasks[OldestAtLookup].record.encryptedKey,
                                         this_masterKey).message
                    /\ ResumedCall.message # NotFound
                    /\ ResumedCall.decryptCalls = 1
                    /\ ResumedCall.adapterCalls = 0
           /\ ResumedCall.adapterCalls = 1
                 => /\ tasks[OldestAtLookup].record.present
                    /\ ResumedCall.decryptCalls = 1
                    /\ vaultDecrypt(tasks[OldestAtLookup].record.encryptedKey,
                                    this_masterKey)
                          = Return(ResumedCall.adapterKey)]_vars

\* C13, reached: a chat found a record its master key no longer opens and
\* ended with the error of decrypt, without an adapter
ChatFailedToDecrypt ==
    /\ last.op = "chat"
    /\ last.threw
    /\ last.getCalls = 1
    /\ last.decryptCalls = 1
    /\ last.adapterCalls = 0
    /\ Len(last.message) = 2
    /\ last.message[1] = "Decryption failed: "

\* a deleteKey call returned in this step
DeleteKeyReturns == last' # last /\ last'.op = "deleteKey" /\ ~last'.threw

\* C14: deleteKey(userId, provider) returns true exactly when a record of
\* that identity was in the store before the call and is removed by it, and
\* false, with the store as it was, when there was none; a deleteKey directly
\* after a successful one for the same identity returns false; get of a
\* missing record returns the sentinel.
DeleteKeyReportsRemoval ==
    [][DeleteKeyReturns
        => /\ last'.result
                 <=> RecordsOf(store, << last'.userId, last'.provider >>) # { }
           /\ RecordsOf(store', << last'.userId, last'.provider >>) = { }
           /\ ~last'.result => store' = store
           /\ (/\ last.op = "deleteKey"
               /\ last.result
               /\ last.userId = last'.userId
               /\ last.provider = last'.provider) => ~last'.result
           /\ MemoryStoreGet(store', last'.userId, last'.provider) = NoRecord]_vars

\* the chat invocations of the state: the one that settled last and the
\* suspended ones
ChatCalls ==
    (IF last.op = "chat" THEN { last } ELSE { })
        \cup { tasks[i].call : i \in 1..Len(tasks) }

\* C15: every chat invocation for a supported provider does its own store
\* lookup, and one that reaches the provider adapter did its own decryption
\* and hands the adapter the apiKey that was registered for its user when it
\* started: never a key replaced by registerKey or removed by deleteKey before
\* that.
NoKeyCachedAcrossChats ==
    /\ \A c \in ChatCalls :
          /\ c.provider = Gemini => c.getCalls = 1
          /\ c.adapterCalls = 1
                => /\ c.getCalls = 1
                   /\ c.decryptCalls = 1
                   /\ c.current # << >>
                   /\ c.adapterKey = c.current
    /\ \A i \in 1..Len(tasks) :
          tasks[i].phase = "lookup" /\ tasks[i].record.present
             => /\ tasks[i].call.current # << >>
                /\ tasks[i].call.decryptCalls = 0
                /\ tasks[i].call.adapterKey = << >>

\* C15, reached: registerKey replaced the key of a user by another one, and
\* a chat of that user is at the provider with the replacing key
ChatUsedReplacingKey ==
    /\ last.op = "registerKey"
    /\ ~last.threw
    /\ \E e \in EncryptTable :
          e[2].value = last.replaced /\ e[1][1] # registered[last.userId]
    /\ \E i \in 1..Len(tasks) :
          /\ tasks[i].phase = "provider"
          /\ tasks[i].call.userId = last.userId
          /\ tasks[i].call.adapterKey = registered[last.userId]

\* C16: a chat invocation attempts the store lookup, the decryption and the
\* adapter's chat at most once each and only moves forward; when decrypt or
\* the provider's call fails, the invocation ends in that step with the error
\* as it was raised, and makes no further attempt.
NoAutomaticRetries ==
    [][/\ \A c \in ChatCalls :
             c.getCalls <= 1 /\ c.decryptCalls <= 1 /\ c.adapterCalls <= 1
       /\ \A i \in 1..Len(tasks) :
             /\ (Len(tasks') = Len(tasks) /\ tasks'[i] # tasks[i])
                   => /\ tasks[i].phase = "lookup"
                      /\ tasks'[i].phase = "provider"
                      /\ tasks'[i].call.decryptCalls = 1
                      /\ tasks'[i].call.adapterCalls = 1
             /\ (tasks' = Without(tasks, i) /\ tasks[i].phase = "provider")
                   => /\ last'.getCalls = tasks[i].call.getCalls
                      /\ last'.decryptCalls = tasks[i].call.decryptCalls
                      /\ last'.adapterCalls = tasks[i].call.adapterCalls
                      /\ last'.upstream.threw
                            => last'.threw /\ last'.message = last'.upstream.message
                      /\ ~last'.upstream.threw
                            => ~last'.threw /\ last'.text = last'.upstream.value
             /\ (/\ tasks' = Without(tasks, i)
                 /\ tasks[i].phase = "lookup"
                 /\ tasks[i].record.present
                 /\ vaultDecrypt(tasks[i].record.encryptedKey, this_masterKey).threw)
                   => /\ last'.threw
                      /\ last'.message
                            = vaultDecrypt(tasks[i].record.encryptedKey,
                                           this_masterKey).message
                      /\ last'.getCalls = 1
                      /\ last'.decryptCalls = 1
                      /\ last'.adapterCalls = 0]_vars

\* C16, reached: the provider's call of a chat failed and the chat ended
\* with that error
ChatReportedUpstreamError ==
    /\ last.op = "chat"
    /\ last.upstream = Throw(UpstreamError)
    /\ last.threw
    /\ last.message = UpstreamError
    /\ last.adapterCalls = 1
    /\ tasks = << >>

\* the apiKeys of which encrypt made the blob
PlaintextsOf(encryptedKey) ==
    { e[1][1] : e \in { x \in EncryptTable : x[2].value = encryptedKey } }

\* the store after the step holds, for every user, the whole record of the
\* registerKey that took effect last on the user's key, or nothing when a
\* deleteKey took effect last or none did (as the empty store and the empty
\* history of the initial state do)
LastWriteStands ==
    /\ \A e1 \in store' : \A e2 \in store' : e1.key = e2.key => e1 = e2
    /\ \A e \in store' :
          /\ e.value.userId \in Users
          /\ e.value.provider = Gemini
          /\ e.key = MemoryStoreKey(e.value.userId, e.value.provider)
    /\ \A u \in Users :
          /\ MemoryStoreGet(store', u, Gemini).present <=> registered'[u] # << >>
          /\ MemoryStoreGet(store', u, Gemini).present
                => /\ MemoryStoreGet(store', u, Gemini).userId = u
                   /\ MemoryStoreGet(store', u, Gemini).provider = Gemini
                   /\ PlaintextsOf(MemoryStoreGet(store', u, Gemini).encryptedKey)
                         = { registered'[u] }

\* the step changes the store only as one registerKey or one deleteKey, and
\* only under the key of that call
OneWriteAtATime ==
    store' # store
       => /\ last' # last
          /\ last'.op \in { "registerKey", "deleteKey" }
          /\ ~last'.threw
          /\ \A e \in (store' \ store) \cup (store \ store') :
                e.key = MemoryStoreKey(last'.userId, last'.provider)
          /\ last'.op = "registerKey"
                => MemoryStoreGet(store', last'.userId, last'.provider)
                      = KeyRecord(last'.userId, last'.provider, last'.produced)
          /\ last'.op = "deleteKey"
                => /\ last'.result
                   /\ ~MemoryStoreHas(store', last'.userId, last'.provider)

\* the record a suspended chat got from the store is the whole record of one
\* registerKey
SnapshotsAreWhole ==
    \A i \in 1..Len(tasks') :
       tasks'[i].record.present
          => /\ tasks'[i].record.userId = tasks'[i].call.userId
             /\ tasks'[i].record.provider = Gemini
             /\ PlaintextsOf(tasks'[i].record.encryptedKey)
                   = { tasks'[i].call.current }

\* C17: MemoryStore.set and MemoryStore.delete have no await in them and run
\* to their end inside the call, so registerKey and deleteKey take effect
\* before they suspend and read and write nothing after.  However
\* registerKey, deleteKey and the suspended chat invocations interleave, each set and delete takes effect in one step and on its own
\* key only; the store holds for each key the whole record of the registerKey
\* that took effect last, or nothing after a delete; no update is lost, and
\* neither the store nor a lookup ever shows a record mixed from two
\* registrations.
SetAndDeleteLinearize ==
    [][/\ (store' # store \/ registered' # registered) => LastWriteStands
       /\ OneWriteAtATime
       /\ tasks' # tasks => SnapshotsAreWhole]_vars

\* C17, reached: while a chat holding the record of a user was suspended, a
\* deleteKey removed that record from the store
DeleteKeyOvertookChat ==
    /\ last.op = "deleteKey"
    /\ last.result
    /\ registered[last.userId] = << >>
    /\ \E i \in 1..Len(tasks) :
          /\ tasks[i].call.userId = last.userId
          /\ tasks[i].record.present

Unsupported == << "Only provider 'gemini' is supported in this preview" >>

\* C18: a chat without a provider does what a chat with provider "gemini"
\* does, and a chat with any other provider fails with the unsupported
\* provider error before the store is consulted: no lookup, no decryption, no
\* adapter.
UnsupportedProviderFailsEarly ==
    /\ \A c \in ChatCalls :
          c.provider # Gemini
             => /\ c.threw
                /\ c.message = Unsupported
                /\ c.getCalls = 0
                /\ c.decryptCalls = 0
                /\ c.adapterCalls = 0
                /\ c.adapterKey = << >>
    /\ \A i \in 1..Len(tasks) : tasks[i].call.provider = Gemini
    /\ instance = ClassVault
          => \A input \in ChatInputs :
                /\ input.provider = EmptyString
                      => /\ chatProvider(input) = Gemini
                         /\ chatLookup(store, this_masterKey, input.userId, input)
                               = chatLookup(store, this_masterKey, input.userId,
                                            [input EXCEPT !.provider = Gemini])
                /\ input.provider \notin { EmptyString, Gemini }
                      => chatLookup(store, this_masterKey, input.userId, input)
                            = [message |-> Unsupported, getCalls |-> 0,
                               record |-> NoRecord]

\* C18, reached: a chat for an unsupported provider failed while the store
\* held a record of its user
ChatRefusedProvider ==
    /\ last.op = "chat"
    /\ last.provider = ProviderBGemini
    /\ last.message = Unsupported
    /\ last.getCalls = 0
    /\ MemoryStoreHas(store, last.userId, Gemini)

(***************************************************************************)
(* Properties of the cipher, continued.                                    *)
(***************************************************************************)
\* "QUJD": a text decrypt refuses as too short once it accepted its key
ShortText == << 81, 85, 74, 68 >>

\* C19: encrypt and decrypt accept the master key values the constructor
\* accepts (a Buffer of 32 bytes, a text of 32 bytes, a base64 text of 32
\* bytes) and fail for the values it rejects.
CipherAcceptsKeysOfConstructor ==
    (pc # "start" /\ plain # << >>)
       => /\ blob # << >> <=> ~construct(ClassVault, cipherKey).threw
          /\ decrypt(ShortText, cipherKey).message
                = << "Decryption failed: ", "Invalid ciphertext format: too short" >>
                <=> ~construct(ClassVault, cipherKey).threw

(***************************************************************************)
(* The content of the store (specification Spec).                          *)
(***************************************************************************)
\* the key of the instance is the one it was constructed with: nothing but
\* the instance's own operations has acted
OwnOperationsOnly == this_masterKey' = constructedKey'

\* the call that settled in this step is one that is to leave the store alone:
\* hasKey, chat, a registerKey that failed, a deleteKey of an identity of which
\* the store holds no record
ReadOnlyCallSettles ==
    /\ last' # last
    /\ \/ last'.op \in { "hasKey", "chat" }
       \/ last'.op = "registerKey" /\ last'.threw
       \/ /\ last'.op = "deleteKey"
          /\ RecordsOf(store, << last'.userId, last'.provider >>) = { }

\* C20: as long as only the instance's operations act, every record in the
\* store has a non-empty userId, the provider "gemini" and an encryptedKey
\* that is not an apiKey and that decrypts under the instance's master key to
\* the apiKey of the last successful registerKey of its user; hasKey, chat, a
\* failed registerKey and a deleteKey of an absent identity leave the store
\* as it was.
StoreHoldsLastRegisteredKeys ==
    [][OwnOperationsOnly
        => /\ \A e \in store' :
                 /\ e.value.userId # EmptyString
                 /\ e.value.provider = Gemini
                 /\ e.value.encryptedKey \notin Credentials
                 /\ e.value.userId \in Users
                 /\ vaultDecrypt(e.value.encryptedKey, this_masterKey')
                       = Return(registered'[e.value.userId])
           /\ ReadOnlyCallSettles => store' = store
           /\ tasks' # tasks => store' = store]_vars

=============================================================================
